---- MODULE Spec2Model ----
(***************************************************************************)
(* pg_retry: retry(sql, max_tries, base_delay_ms, max_delay_ms,            *)
(* retry_sqlstates).  One invocation of pg_retry_retry() is modelled as a  *)
(* sequential process whose program counter pc walks through the function  *)
(* body.  The repository holds two variants of the function:               *)
(*   "new"  src/src/pg_retry.c  (rethrows inside PG_CATCH)                 *)
(*   "old"  src/pg_retry.c      (stores last_error, rethrows after loop)   *)
(* The host engine (parser, SPI executor, subtransactions, interrupts) is  *)
(* the environment: its answers are chosen nondeterministically.           *)
(***************************************************************************)
EXTENDS Integers, Sequences, FiniteSets, TLC

VARIABLES
    variant,              \* which source file is running: "new" or "old"
    fcinfo,               \* PG_FUNCTION_ARGS: the five arguments, each possibly NULL
    pc,                   \* position inside pg_retry_retry
    max_tries, base_delay_ms, max_delay_ms, retry_sqlstates,
    attempt, processed_rows, success, last_error, errdata, should_retry,
    retry_context, retry_owner,
    CurrentMemoryContext, CurrentResourceOwner,
    xact,                 \* transaction stack: xact[i] is the data visible at nesting level i
    entry_xact,           \* history: the transaction stack when retry() was called
    spi_connected,
    InterruptPending,     \* a cancel request has arrived and was not yet processed
    outcomes,             \* history: what each attempt of this invocation did
    warnings,             \* history: ereport(WARNING) calls
    sleeps,               \* history: pg_usleep calls
    parse_calls,          \* history: number of pg_parse_query calls
    result                \* how the invocation ended

vars == <<variant, fcinfo, pc, max_tries, base_delay_ms, max_delay_ms, retry_sqlstates,
          attempt, processed_rows, success, last_error, errdata, should_retry,
          retry_context, retry_owner, CurrentMemoryContext, CurrentResourceOwner,
          xact, entry_xact, spi_connected, InterruptPending, outcomes, warnings, sleeps,
          parse_calls, result>>

(***************************************************************************)
(* Bounds of the model.                                                    *)
(***************************************************************************)
MaxTriesArg == 2          \* largest explicit max_tries argument
MaxStmts == 2             \* longest statement list the parser yields
MaxDelayArg == 6          \* largest delay argument when the backoff is examined alone
MaxAttemptArg == 4        \* largest attempt index when the backoff is examined alone
MaxCodes == 2             \* longest retry_sqlstates array when the classifier is examined alone
MaxScopeFaults == 1       \* subtransaction begin/release failures per invocation
JitterDen == 2            \* the uniform draw is k / JitterDen

(***************************************************************************)
(* GUC defaults.                                                           *)
(***************************************************************************)
pg_retry_default_max_tries == 3
pg_retry_default_base_delay_ms == 50
pg_retry_default_max_delay_ms == 1000
\* variation: 57014 is not among the default codes
default_sqlstates_without_query_canceled ==
    <<"4","0","0","0","1", ",", "4","0","P","0","1", ",", "5","5","P","0","3">>

pg_retry_default_sqlstates_str ==
    <<"4","0","0","0","1", ",", "4","0","P","0","1", ",",
      "5","5","P","0","3", ",", "5","7","0","1","4">>

(***************************************************************************)
(* SQLSTATE packing (utils/elog.h): five characters, six bits each.        *)
(***************************************************************************)
Ascii ==
    [c \in {"0","1","2","3","4","5","6","7","8","9","A","P","X","p"," ",","} |->
        CASE c = "0" -> 48 [] c = "1" -> 49 [] c = "2" -> 50 [] c = "3" -> 51
          [] c = "4" -> 52 [] c = "5" -> 53 [] c = "6" -> 54 [] c = "7" -> 55
          [] c = "8" -> 56 [] c = "9" -> 57 [] c = "A" -> 65 [] c = "P" -> 80
          [] c = "X" -> 88 [] c = "p" -> 112 [] c = " " -> 32 [] c = "," -> 44]

CharOf(n) == CHOOSE c \in DOMAIN Ascii : Ascii[c] = n

PGSIXBIT(ch) == (Ascii[ch] - 48) % 64
PGUNSIXBIT(val) == CharOf((val % 64) + 48)

MAKE_SQLSTATE(s) ==
    PGSIXBIT(s[1]) + PGSIXBIT(s[2]) * 64 + PGSIXBIT(s[3]) * 4096
        + PGSIXBIT(s[4]) * 262144 + PGSIXBIT(s[5]) * 16777216

unpack_sql_state(sql_state) ==
    << PGUNSIXBIT(sql_state), PGUNSIXBIT(sql_state \div 64), PGUNSIXBIT(sql_state \div 4096),
       PGUNSIXBIT(sql_state \div 262144), PGUNSIXBIT(sql_state \div 16777216) >>

ERRCODE_NULL_VALUE_NOT_ALLOWED == MAKE_SQLSTATE(<<"2","2","0","0","4">>)
ERRCODE_INVALID_PARAMETER_VALUE == MAKE_SQLSTATE(<<"2","2","0","2","3">>)
ERRCODE_SYNTAX_ERROR == MAKE_SQLSTATE(<<"4","2","6","0","1">>)
ERRCODE_FEATURE_NOT_SUPPORTED == MAKE_SQLSTATE(<<"0","A","0","0","0">>)
ERRCODE_CONNECTION_FAILURE == MAKE_SQLSTATE(<<"0","8","0","0","6">>)
ERRCODE_INTERNAL_ERROR == MAKE_SQLSTATE(<<"X","X","0","0","0">>)
ERRCODE_QUERY_CANCELED == MAKE_SQLSTATE(<<"5","7","0","1","4">>)
ERRCODE_T_R_SERIALIZATION_FAILURE == MAKE_SQLSTATE(<<"4","0","0","0","1">>)
ERRCODE_DIVISION_BY_ZERO == MAKE_SQLSTATE(<<"2","2","0","1","2">>)

ErrorData(code, msg) == [sqlerrcode |-> code, message |-> msg]
NoError == ErrorData(-1, "")

(***************************************************************************)
(* Arrays of text: a sequence of elements [isnull, str]; a string is a     *)
(* sequence of characters.                                                 *)
(***************************************************************************)
TextElem(str) == [isnull |-> FALSE, str |-> str]
NullElem == [isnull |-> TRUE, str |-> <<>>]

isspace(c) == c = " "

TokenEnd(s) ==
    IF \E j \in 1..Len(s) : s[j] = ","
    THEN CHOOSE j \in 1..Len(s) : s[j] = "," /\ \A k \in 1..(j - 1) : s[k] # ","
    ELSE Len(s) + 1

RECURSIVE RawTokens(_)
RawTokens(s) ==
    LET e == TokenEnd(s)
    IN  IF e > Len(s) THEN <<s>>
        ELSE <<SubSeq(s, 1, e - 1)>> \o RawTokens(SubSeq(s, e + 1, Len(s)))

RECURSIVE TrimLeft(_)
TrimLeft(s) == IF s # <<>> /\ isspace(Head(s)) THEN TrimLeft(Tail(s)) ELSE s

RECURSIVE TrimRight(_)
TrimRight(s) ==
    IF s # <<>> /\ isspace(s[Len(s)]) THEN TrimRight(SubSeq(s, 1, Len(s) - 1)) ELSE s

RECURSIVE NonEmptyTokens(_)
NonEmptyTokens(toks) ==
    IF toks = <<>> THEN <<>>
    ELSE LET t == TrimRight(TrimLeft(Head(toks)))
         IN  (IF t # <<>> THEN <<TextElem(t)>> ELSE <<>>) \o NonEmptyTokens(Tail(toks))

\* src/src/pg_retry.c: trims each token and drops the empty ones
build_sqlstate_array(csv) ==
    IF csv = <<>> THEN <<>> ELSE NonEmptyTokens(RawTokens(csv))

\* src/pg_retry.c: text_to_array(textin(csv), ","), tokens kept as they are
text_to_array(csv) ==
    IF csv = <<>> THEN <<>>
    ELSE LET toks == RawTokens(csv) IN [i \in 1..Len(toks) |-> TextElem(toks[i])]

is_retryable_sqlstate(sqlstate, sqlstates) ==
    \E i \in 1..Len(sqlstates) :
        /\ ~sqlstates[i].isnull
        /\ sqlstates[i].str = sqlstate

(***************************************************************************)
(* Statement validation.  pg_parse_query either raises a syntax error or   *)
(* yields a list of raw statements, each known here by its node tag.       *)
(***************************************************************************)
NodeTags == {"TransactionStmt", "UpdateStmt"}

list_length(l) == Len(l)

contains_transaction_control(parsetree_list) ==
    IF list_length(parsetree_list) # 1 THEN FALSE
    ELSE parsetree_list[1] = "TransactionStmt"

\* variation: a non-empty list passes
is_single_statement_nonempty(raw_parsetree_list) == list_length(raw_parsetree_list) >= 1

is_single_statement(raw_parsetree_list) == list_length(raw_parsetree_list) = 1

Ok == [ok |-> TRUE, err |-> NoError]
Fail(code, msg) == [ok |-> FALSE, err |-> ErrorData(code, msg)]

\* variation: the transaction-control test is missing
validate_sql_without_transaction_check(sql) ==
    IF sql.parse_error
    THEN Fail(ERRCODE_SYNTAX_ERROR, "syntax error")
    ELSE IF ~is_single_statement(sql.stmts)
    THEN Fail(ERRCODE_SYNTAX_ERROR, "pg_retry: SQL must contain exactly one statement")
    ELSE Ok

validate_sql(sql) ==
    IF sql.parse_error
    THEN Fail(ERRCODE_SYNTAX_ERROR, "syntax error")
    ELSE IF ~is_single_statement(sql.stmts)
    THEN Fail(ERRCODE_SYNTAX_ERROR, "pg_retry: SQL must contain exactly one statement")
    ELSE IF contains_transaction_control(sql.stmts)
    THEN Fail(ERRCODE_FEATURE_NOT_SUPPORTED,
              "pg_retry: transaction control statements are not allowed")
    ELSE Ok

\* variation: base_delay_ms >= max_delay_ms is refused
validate_inputs_refusing_equal_delays(mt, base, maxd) ==
    IF mt < 1
    THEN Fail(ERRCODE_INVALID_PARAMETER_VALUE, "pg_retry: max_tries must be >= 1")
    ELSE IF base < 0 \/ maxd < 0
    THEN Fail(ERRCODE_INVALID_PARAMETER_VALUE, "pg_retry: delay parameters must be >= 0")
    ELSE IF base >= maxd
    THEN Fail(ERRCODE_INVALID_PARAMETER_VALUE,
              "pg_retry: base_delay_ms cannot be greater than max_delay_ms")
    ELSE Ok

\* variation: the delays are checked before max_tries
validate_inputs_delays_first(mt, base, maxd) ==
    IF base < 0 \/ maxd < 0
    THEN Fail(ERRCODE_INVALID_PARAMETER_VALUE, "pg_retry: delay parameters must be >= 0")
    ELSE IF base > maxd
    THEN Fail(ERRCODE_INVALID_PARAMETER_VALUE,
              "pg_retry: base_delay_ms cannot be greater than max_delay_ms")
    ELSE IF mt < 1
    THEN Fail(ERRCODE_INVALID_PARAMETER_VALUE, "pg_retry: max_tries must be >= 1")
    ELSE Ok

\* the three parameter checks of pg_retry_retry, in source order
validate_inputs(mt, base, maxd) ==
    IF mt < 1
    THEN Fail(ERRCODE_INVALID_PARAMETER_VALUE, "pg_retry: max_tries must be >= 1")
    ELSE IF base < 0 \/ maxd < 0
    THEN Fail(ERRCODE_INVALID_PARAMETER_VALUE, "pg_retry: delay parameters must be >= 0")
    ELSE IF base > maxd
    THEN Fail(ERRCODE_INVALID_PARAMETER_VALUE,
              "pg_retry: base_delay_ms cannot be greater than max_delay_ms")
    ELSE Ok

(***************************************************************************)
(* Backoff.  uniform = k / JitterDen; the double arithmetic is done on     *)
(* exact rationals: delay + (uniform*delay*0.4 - delay*0.2)                *)
(*   = delay * (8*JitterDen + 4*k) / (10*JitterDen), truncated by (long).  *)
(***************************************************************************)
Min(a, b) == IF a < b THEN a ELSE b
Max(a, b) == IF a > b THEN a ELSE b

\* variation: the delay grows linearly with the attempt
calculate_delay_linear(att, base, maxd, k) ==
    LET delay == Min(base * att, maxd)
        jittered == (delay * (8 * JitterDen + 4 * k)) \div (10 * JitterDen)
    IN  Max(1, jittered)

\* variation: the cap max_delay_ms is not applied
calculate_delay_uncapped(att, base, maxd, k) ==
    LET delay == base * (2 ^ (att - 1))
        jittered == (delay * (8 * JitterDen + 4 * k)) \div (10 * JitterDen)
    IN  Max(1, jittered)

calculate_delay(att, base, maxd, k) ==
    LET delay == Min(base * (2 ^ (att - 1)), maxd)
        jittered == (delay * (8 * JitterDen + 4 * k)) \div (10 * JitterDen)
    IN  Max(1, jittered)

\* pg_prng_double yields [0,1); rand()/RAND_MAX yields [0,1]
Uniforms(v) == IF v = "new" THEN 0..(JitterDen - 1) ELSE 0..JitterDen

(***************************************************************************)
(* The host engine's answers.                                              *)
(***************************************************************************)
Variants == {"new", "old"}

\* what the executor can raise while the statement runs in the subtransaction
ExecErrors ==
    { ErrorData(0, "error without SQLSTATE"),
      ErrorData(ERRCODE_DIVISION_BY_ZERO, "division by zero"),
      ErrorData(ERRCODE_T_R_SERIALIZATION_FAILURE, "could not serialize access"),
      ErrorData(ERRCODE_QUERY_CANCELED, "canceling statement due to user request") }

\* SPI_execute returning a negative code instead of raising
SPI_ERROR_COPY == "SPI_ERROR_COPY"
SPI_OK_UPDATE == "SPI_OK_UPDATE"
SPI_OK_CONNECT == "SPI_OK_CONNECT"
SpiExecuteCodes == {SPI_OK_UPDATE, SPI_ERROR_COPY}
\* SPI_connect_ext raises instead of returning an error code (executor/spi.c)
SpiConnectCodes == {SPI_OK_CONNECT}

\* what ReleaseCurrentSubTransaction can raise (subcommit callbacks)
ReleaseErrors ==
    { ErrorData(ERRCODE_T_R_SERIALIZATION_FAILURE, "could not serialize access at subcommit"),
      ErrorData(ERRCODE_DIVISION_BY_ZERO, "subcommit callback failed") }

\* what BeginInternalSubTransaction can raise before the subtransaction exists
BeginErrors ==
    { ErrorData(MAKE_SQLSTATE(<<"5","3","2","0","0">>), "out of memory") }

Rows == {0, 7}

\* memory contexts and resource owners, by identity
CallerContext == <<"caller", 0>>
CallerOwner == <<"caller", 0>>
SpiProcContext == <<"SPI Proc", 0>>
SpiExecContext == <<"SPI Exec", 0>>
CurTransactionContext(level) == <<"CurTransactionContext", level>>
CurTransactionResourceOwner(level) == <<"CurTransactionResourceOwner", level>>

\* the caller's transaction when retry() is called: the top-level transaction
\* alone, or a savepoint of the caller on top of it.  A level is the set of
\* writes visible in it: 0 the caller's earlier write, -1 its write inside
\* the savepoint, n >= 1 the write of attempt n.
CallerStacks == { <<{0}>>, <<{0}, {0, -1}>> }

Top(stack) == stack[Len(stack)]

(***************************************************************************)
(* Requests.                                                               *)
(***************************************************************************)
RECURSIVE SeqsUpTo(_, _)
SeqsUpTo(S, n) ==
    IF n = 0 THEN {<<>>}
    ELSE LET shorter == SeqsUpTo(S, n - 1)
         IN  shorter \cup {Append(q, x) : q \in shorter, x \in S}

SqlTexts ==
    {[parse_error |-> TRUE, stmts |-> <<>>]}
        \cup {[parse_error |-> FALSE, stmts |-> l] : l \in SeqsUpTo(NodeTags, MaxStmts)}

SingleUpdate == [parse_error |-> FALSE, stmts |-> <<"UpdateStmt">>]

SqlstateArrays ==
    { <<>>,
      <<TextElem(<<"0","0","0","0","0">>), NullElem, TextElem(<<"4","0","0","0","1">>)>> }

\* an int argument: NULL or a value
IntArg(values) == {[isnull |-> TRUE, value |-> 0]} \cup {[isnull |-> FALSE, value |-> v] : v \in values}

AllRequests ==
    [ sql_isnull : BOOLEAN,
      sql : SqlTexts,
      max_tries : IntArg((-1)..MaxTriesArg),
      base_delay_ms : IntArg({-1, 0, 1}),
      max_delay_ms : IntArg({-1, 0, 1}),
      sqlstates_isnull : BOOLEAN,
      retry_sqlstates : SqlstateArrays ]

\* a NULL argument carries no value
Canonical(r) ==
    /\ r.sql_isnull => r.sql = SingleUpdate
    /\ r.sqlstates_isnull => r.retry_sqlstates = <<>>

Requests == {r \in AllRequests : Canonical(r)}

PG_ARGISNULL(n) ==
    CASE n = 0 -> fcinfo.sql_isnull
      [] n = 1 -> fcinfo.max_tries.isnull
      [] n = 2 -> fcinfo.base_delay_ms.isnull
      [] n = 3 -> fcinfo.max_delay_ms.isnull
      [] n = 4 -> fcinfo.sqlstates_isnull

NoResult == [kind |-> "none", rows |-> 0, err |-> NoError]
Returned(rows) == [kind |-> "return", rows |-> rows, err |-> NoError]
Raised(err) == [kind |-> "error", rows |-> 0, err |-> err]
Fatal == [kind |-> "fatal", rows |-> 0, err |-> NoError]

Init ==
    /\ variant \in Variants
    /\ fcinfo \in Requests
    /\ xact \in CallerStacks
    /\ entry_xact = xact
    /\ pc = "entry"
    /\ max_tries = 0 /\ base_delay_ms = 0 /\ max_delay_ms = 0 /\ retry_sqlstates = <<>>
    /\ attempt = 0 /\ processed_rows = 0 /\ success = FALSE
    /\ last_error = NoError /\ errdata = NoError /\ should_retry = FALSE
    /\ retry_context = CallerContext /\ retry_owner = CallerOwner
    /\ CurrentMemoryContext = CallerContext /\ CurrentResourceOwner = CallerOwner
    /\ spi_connected = FALSE
    /\ InterruptPending = FALSE
    /\ outcomes = <<>> /\ warnings = <<>> /\ sleeps = <<>>
    /\ parse_calls = 0
    /\ result = NoResult

(***************************************************************************)
(* pg_retry_retry, step by step.                                           *)
(***************************************************************************)
locals == <<max_tries, base_delay_ms, max_delay_ms, retry_sqlstates>>
loopvars == <<attempt, processed_rows, success, last_error, errdata, should_retry>>
ambient == <<CurrentMemoryContext, CurrentResourceOwner, xact, spi_connected, InterruptPending>>
history == <<outcomes, warnings, sleeps, parse_calls>>
fixed == <<variant, fcinfo, retry_context, retry_owner, entry_xact>>

\* ereport(ERROR) / ReThrowError leaving pg_retry_retry
Throw(err) ==
    /\ pc' = "done"
    /\ result' = Raised(err)

ScopeFaults == Cardinality({i \in 1..Len(outcomes) : outcomes[i].kind \in {"begin_error", "release_error"}})

Outcome(kind, rows, err) == [kind |-> kind, rows |-> rows, err |-> err]

\* PG_ARGISNULL(0) check and argument defaults
ExtractArguments ==
    /\ pc = "entry"
    /\ IF PG_ARGISNULL(0)
       THEN /\ Throw(ErrorData(ERRCODE_NULL_VALUE_NOT_ALLOWED, "pg_retry: sql parameter cannot be null"))
            /\ UNCHANGED locals
       ELSE /\ max_tries' = IF PG_ARGISNULL(1) THEN pg_retry_default_max_tries
                            ELSE fcinfo.max_tries.value
            /\ base_delay_ms' = IF PG_ARGISNULL(2) THEN pg_retry_default_base_delay_ms
                                ELSE fcinfo.base_delay_ms.value
            /\ max_delay_ms' = IF PG_ARGISNULL(3) THEN pg_retry_default_max_delay_ms
                               ELSE fcinfo.max_delay_ms.value
            /\ retry_sqlstates' =
                   IF PG_ARGISNULL(4)
                   THEN IF variant = "new"
                        THEN build_sqlstate_array(pg_retry_default_sqlstates_str)
                        ELSE text_to_array(pg_retry_default_sqlstates_str)
                   ELSE fcinfo.retry_sqlstates
            /\ pc' = "validate_inputs"
            /\ UNCHANGED result
    /\ UNCHANGED <<fixed, loopvars, ambient, history>>

ValidateInputs ==
    /\ pc = "validate_inputs"
    /\ LET v == validate_inputs(max_tries, base_delay_ms, max_delay_ms)
       IN  IF v.ok THEN pc' = "validate_sql" /\ UNCHANGED result
           ELSE Throw(v.err)
    /\ UNCHANGED <<fixed, locals, loopvars, ambient, history>>

ValidateSql ==
    /\ pc = "validate_sql"
    /\ parse_calls' = parse_calls + 1
    /\ LET v == validate_sql(fcinfo.sql)
       IN  IF v.ok THEN pc' = "SPI_connect" /\ UNCHANGED result
           ELSE Throw(v.err)
    /\ UNCHANGED <<fixed, locals, loopvars, ambient, outcomes, warnings, sleeps>>

SpiConnect ==
    /\ pc = "SPI_connect"
    /\ \E rc \in SpiConnectCodes :
          IF rc # SPI_OK_CONNECT
          THEN /\ Throw(ErrorData(ERRCODE_CONNECTION_FAILURE, "pg_retry: SPI_connect failed"))
               /\ UNCHANGED <<attempt, spi_connected, CurrentMemoryContext>>
          ELSE /\ spi_connected' = TRUE
               /\ CurrentMemoryContext' = SpiProcContext
               /\ attempt' = 1
               /\ pc' = "for"
               /\ UNCHANGED result
    /\ UNCHANGED <<fixed, locals, processed_rows, success, last_error, errdata, should_retry,
                   CurrentResourceOwner, xact, InterruptPending, history>>

\* for (...; attempt <= max_tries; ...)
\* variation: one iteration too many
LoopConditionOffByOne(att, mt) == att <= mt + 1

LoopCondition(att, mt) == att <= mt

ForTest ==
    /\ pc = "for"
    /\ pc' = IF LoopCondition(attempt, max_tries) THEN "begin" ELSE "SPI_finish"
    /\ UNCHANGED <<fixed, locals, loopvars, ambient, history, result>>

\* BeginInternalSubTransaction(NULL) [+ MemoryContextSwitchTo(retry_context)]
BeginAttempt ==
    /\ pc = "begin"
    /\ \/ /\ xact' = Append(xact, Top(xact))
          /\ CurrentMemoryContext' = IF variant = "new" THEN retry_context
                                     ELSE CurTransactionContext(Len(xact) + 1)
          /\ CurrentResourceOwner' = CurTransactionResourceOwner(Len(xact) + 1)
          /\ pc' = "SPI_execute"
          /\ UNCHANGED <<errdata, outcomes>>
       \/ /\ ScopeFaults < MaxScopeFaults
          /\ \E e \in BeginErrors :
                /\ errdata' = e
                /\ outcomes' = Append(outcomes, Outcome("begin_error", 0, e))
          /\ pc' = "catch"
          /\ UNCHANGED <<xact, CurrentMemoryContext, CurrentResourceOwner>>
    /\ UNCHANGED <<fixed, locals, attempt, processed_rows, success, last_error, should_retry,
                   spi_connected, InterruptPending, warnings, sleeps, parse_calls, result>>

\* a statement writes into the current subtransaction, also when it fails later
Execute(stack, n) == [stack EXCEPT ![Len(stack)] = @ \cup {n}]

\* SPI_execute, the spi_result < 0 test, processed_rows and success
SpiExecute ==
    /\ pc = "SPI_execute"
    /\ xact' = Execute(xact, attempt)
    /\ \/ \E spi_result \in SpiExecuteCodes, SPI_processed \in Rows :
             IF spi_result = SPI_ERROR_COPY
             THEN LET e == ErrorData(ERRCODE_INTERNAL_ERROR, "pg_retry: SPI_execute failed with code")
                  IN  /\ SPI_processed = 0
                      /\ errdata' = e
                      /\ outcomes' = Append(outcomes, Outcome("exec_error", 0, e))
                      /\ CurrentMemoryContext' = SpiProcContext
                      /\ pc' = "catch"
                      /\ UNCHANGED <<processed_rows, success>>
             ELSE /\ processed_rows' = SPI_processed
                  /\ success' = TRUE
                  /\ CurrentMemoryContext' = SpiProcContext
                  /\ pc' = "release"
                  /\ UNCHANGED <<errdata, outcomes>>
       \/ \E e \in ExecErrors :
             /\ errdata' = e
             /\ outcomes' = Append(outcomes, Outcome("exec_error", 0, e))
             /\ CurrentMemoryContext' = SpiExecContext
             /\ pc' = "catch"
             /\ UNCHANGED <<processed_rows, success>>
    /\ UNCHANGED <<fixed, locals, attempt, last_error, should_retry, CurrentResourceOwner,
                   spi_connected, InterruptPending, warnings, sleeps, parse_calls, result>>

\* the subtransaction's writes become the parent's
CommitSub(stack) == SubSeq(stack, 1, Len(stack) - 2) \o <<Top(stack)>>
\* the subtransaction's writes are dropped
AbortSub(stack) == SubSeq(stack, 1, Len(stack) - 1)

\* ReleaseCurrentSubTransaction [+ restoring context and owner]
ReleaseAttempt ==
    /\ pc = "release"
    /\ \/ /\ xact' = CommitSub(xact)
          /\ CurrentMemoryContext' = IF variant = "new" THEN retry_context
                                     ELSE CurTransactionContext(Len(xact) - 1)
          /\ CurrentResourceOwner' = IF variant = "new" THEN retry_owner
                                     ELSE CurTransactionResourceOwner(Len(xact) - 1)
          /\ outcomes' = Append(outcomes, Outcome("ok", processed_rows, NoError))
          /\ pc' = "end_try"
          /\ UNCHANGED errdata
       \/ /\ ScopeFaults < MaxScopeFaults
          /\ \E e \in ReleaseErrors :
                /\ errdata' = e
                /\ outcomes' = Append(outcomes, Outcome("release_error", processed_rows, e))
          /\ CurrentMemoryContext' = CurTransactionContext(Len(xact))
          /\ pc' = "catch"
          /\ UNCHANGED <<xact, CurrentResourceOwner>>
    /\ UNCHANGED <<fixed, locals, attempt, processed_rows, success, last_error, should_retry,
                   spi_connected, InterruptPending, warnings, sleeps, parse_calls, result>>

\* variation: the failed attempt's subtransaction is left open
CatchWithoutRollback ==
    /\ pc = "catch"
    /\ should_retry' = FALSE
    /\ pc' = "classify"
    /\ UNCHANGED <<xact, CurrentMemoryContext, CurrentResourceOwner, result>>
    /\ UNCHANGED <<fixed, locals, attempt, processed_rows, success, last_error, errdata,
                   spi_connected, InterruptPending, history>>

\* PG_CATCH up to the restored context: CopyErrorData (errdata is held by
\* value here; where the copy is allocated is not followed), FlushErrorState,
\* RollbackAndReleaseCurrentSubTransaction, which aborts the innermost
\* subtransaction there is and ends the session (FATAL) when there is none
CatchRollback ==
    /\ pc = "catch"
    /\ should_retry' = FALSE
    /\ IF Len(xact) >= 2
       THEN /\ xact' = AbortSub(xact)
            /\ CurrentMemoryContext' = IF variant = "new" THEN retry_context
                                       ELSE CurTransactionContext(Len(xact) - 1)
            /\ CurrentResourceOwner' = IF variant = "new" THEN retry_owner
                                       ELSE CurTransactionResourceOwner(Len(xact) - 1)
            /\ pc' = "classify"
            /\ UNCHANGED result
       ELSE /\ pc' = "done"
            /\ result' = Fatal
            /\ CurrentMemoryContext' = IF variant = "new" THEN retry_context
                                       ELSE CurrentMemoryContext
            /\ UNCHANGED <<xact, CurrentResourceOwner>>
    /\ UNCHANGED <<fixed, locals, attempt, processed_rows, success, last_error, errdata,
                   spi_connected, InterruptPending, history>>

Warning(att, mt, sqlstate, message) ==
    [attempt |-> att, max_tries |-> mt, sqlstate |-> sqlstate, message |-> message]

\* variation: the test for a missing SQLSTATE is left out
ShouldRetryWithoutCodeTest(err, sqlstates) ==
    is_retryable_sqlstate(unpack_sql_state(err.sqlerrcode), sqlstates)

\* the classification of the caught error
ShouldRetry(err, sqlstates) ==
    /\ err.sqlerrcode # 0
    /\ is_retryable_sqlstate(unpack_sql_state(err.sqlerrcode), sqlstates)

\* variation: no WARNING for the failure of the last attempt
ClassifyQuietOnLastAttempt ==
    /\ pc = "classify"
    /\ IF ShouldRetry(errdata, retry_sqlstates)
       THEN /\ should_retry' = TRUE
            /\ warnings' = IF attempt < max_tries
                           THEN Append(warnings,
                                    Warning(attempt, max_tries,
                                            unpack_sql_state(errdata.sqlerrcode), errdata.message))
                           ELSE warnings
       ELSE UNCHANGED <<should_retry, warnings>>
    /\ pc' = "decide"
    /\ UNCHANGED <<fixed, locals, attempt, processed_rows, success, last_error, errdata,
                   ambient, outcomes, sleeps, parse_calls, result>>

\* variation: a WARNING for every caught error
ClassifyWarningForEveryFailure ==
    /\ pc = "classify"
    /\ should_retry' = ShouldRetry(errdata, retry_sqlstates)
    /\ warnings' = Append(warnings,
           Warning(attempt, max_tries, unpack_sql_state(errdata.sqlerrcode), errdata.message))
    /\ pc' = "decide"
    /\ UNCHANGED <<fixed, locals, attempt, processed_rows, success, last_error, errdata,
                   ambient, outcomes, sleeps, parse_calls, result>>

\* "Check if this is a retryable error" and the WARNING
Classify ==
    /\ pc = "classify"
    /\ IF ShouldRetry(errdata, retry_sqlstates)
       THEN /\ should_retry' = TRUE
            /\ warnings' = Append(warnings,
                   Warning(attempt, max_tries, unpack_sql_state(errdata.sqlerrcode),
                           errdata.message))
       ELSE UNCHANGED <<should_retry, warnings>>
    /\ pc' = "decide"
    /\ UNCHANGED <<fixed, locals, attempt, processed_rows, success, last_error, errdata,
                   ambient, outcomes, sleeps, parse_calls, result>>

\* variation: the exhaustion test is missing
GiveUpOnlyWhenNotRetryable(retry, att, mt) == ~retry

\* if (!should_retry || attempt == max_tries)
GiveUp(retry, att, mt) == ~retry \/ att = mt

\* variation: both variants rethrow inside PG_CATCH
DecideRethrowingAtOnce ==
    /\ pc = "decide"
    /\ IF GiveUp(should_retry, attempt, max_tries)
       THEN Throw(errdata) /\ UNCHANGED <<last_error, errdata>>
       ELSE /\ errdata' = NoError
            /\ pc' = "delay"
            /\ UNCHANGED <<last_error, result>>
    /\ UNCHANGED <<fixed, locals, attempt, processed_rows, success, should_retry,
                   ambient, history>>

\* the rethrow (src/src/pg_retry.c) or the saved error (src/pg_retry.c), else the retry
Decide ==
    /\ pc = "decide"
    /\ IF GiveUp(should_retry, attempt, max_tries)
       THEN IF variant = "new"
            THEN Throw(errdata) /\ UNCHANGED <<last_error, errdata>>
            ELSE /\ last_error' = errdata
                 /\ pc' = "end_try"
                 /\ UNCHANGED <<errdata, result>>
       ELSE /\ errdata' = NoError
            /\ pc' = "delay"
            /\ UNCHANGED <<last_error, result>>
    /\ UNCHANGED <<fixed, locals, attempt, processed_rows, success, should_retry,
                   ambient, history>>

\* variation: the delay is computed for the attempt to come
DelayForNextAttempt ==
    /\ pc = "delay"
    /\ IF attempt < max_tries
       THEN \E k \in Uniforms(variant), cancel \in BOOLEAN :
               /\ sleeps' = Append(sleeps,
                       [attempt |-> attempt,
                        delay_ms |-> calculate_delay(attempt + 1, base_delay_ms, max_delay_ms, k),
                        cancelled |-> cancel])
               /\ InterruptPending' = cancel
               /\ pc' = "CHECK_FOR_INTERRUPTS"
       ELSE /\ pc' = "end_try"
            /\ UNCHANGED <<sleeps, InterruptPending>>
    /\ UNCHANGED <<fixed, locals, loopvars, CurrentMemoryContext, CurrentResourceOwner, xact,
                   spi_connected, outcomes, warnings, parse_calls, result>>

\* if (attempt < max_tries) { calculate_delay; pg_usleep; ... }
\* a cancel request may arrive while the backend sleeps
Delay ==
    /\ pc = "delay"
    /\ IF attempt < max_tries
       THEN \E k \in Uniforms(variant), cancel \in BOOLEAN :
               /\ sleeps' = Append(sleeps,
                       [attempt |-> attempt,
                        delay_ms |-> calculate_delay(attempt, base_delay_ms, max_delay_ms, k),
                        cancelled |-> cancel])
               /\ InterruptPending' = cancel
               /\ pc' = "CHECK_FOR_INTERRUPTS"
       ELSE /\ pc' = "end_try"
            /\ UNCHANGED <<sleeps, InterruptPending>>
    /\ UNCHANGED <<fixed, locals, loopvars, CurrentMemoryContext, CurrentResourceOwner, xact,
                   spi_connected, outcomes, warnings, parse_calls, result>>

\* variation: a pending cancel request is not acted upon
CheckForInterruptsNeverRaises ==
    /\ pc = "CHECK_FOR_INTERRUPTS"
    /\ pc' = "end_try"
    /\ UNCHANGED <<InterruptPending, result>>
    /\ UNCHANGED <<fixed, locals, loopvars, CurrentMemoryContext, CurrentResourceOwner, xact,
                   spi_connected, history>>

\* CHECK_FOR_INTERRUPTS(): ProcessInterrupts raises 57014 for a pending cancel
CheckForInterrupts ==
    /\ pc = "CHECK_FOR_INTERRUPTS"
    /\ IF InterruptPending
       THEN /\ InterruptPending' = FALSE
            /\ Throw(ErrorData(ERRCODE_QUERY_CANCELED, "canceling statement due to user request"))
       ELSE /\ pc' = "end_try"
            /\ UNCHANGED <<InterruptPending, result>>
    /\ UNCHANGED <<fixed, locals, loopvars, CurrentMemoryContext, CurrentResourceOwner, xact,
                   spi_connected, history>>

\* variation: the break on success is missing
EndTryWithoutBreak ==
    /\ pc = "end_try"
    /\ pc' = "for" /\ attempt' = attempt + 1
    /\ UNCHANGED <<fixed, locals, processed_rows, success, last_error, errdata, should_retry,
                   ambient, history, result>>

\* PG_END_TRY; if (success) break; attempt++
EndTry ==
    /\ pc = "end_try"
    /\ IF success
       THEN pc' = "SPI_finish" /\ UNCHANGED attempt
       ELSE pc' = "for" /\ attempt' = attempt + 1
    /\ UNCHANGED <<fixed, locals, processed_rows, success, last_error, errdata, should_retry,
                   ambient, history, result>>

\* SPI_finish and "Handle final result"
Finish ==
    /\ pc = "SPI_finish"
    /\ spi_connected' = FALSE
    /\ CurrentMemoryContext' = CallerContext
    /\ pc' = "done"
    /\ result' =
          IF success THEN Returned(processed_rows)
          ELSE IF variant = "new"
          THEN Raised(ErrorData(ERRCODE_INTERNAL_ERROR, "pg_retry: unexpected error state"))
          ELSE IF last_error # NoError
          THEN Raised(last_error)
          ELSE Raised(ErrorData(ERRCODE_INTERNAL_ERROR, "pg_retry: all retry attempts failed"))
    /\ UNCHANGED <<fixed, locals, loopvars, CurrentResourceOwner, xact, InterruptPending, history>>

Next ==
    \/ ExtractArguments
    \/ ValidateInputs
    \/ ValidateSql
    \/ SpiConnect
    \/ ForTest
    \/ BeginAttempt
    \/ SpiExecute
    \/ ReleaseAttempt
    \/ CatchRollback
    \/ Classify
    \/ Decide
    \/ Delay
    \/ CheckForInterrupts
    \/ EndTry
    \/ Finish

Spec == Init /\ [][Next]_vars

\* the backend keeps running the function until it returns or raises
FairSpec == Spec /\ WF_vars(Next)

(***************************************************************************)
(* The backoff alone: pg_retry_retry stands at the wait that follows the   *)
(* retryable failure of attempt n < max_tries, for every n up to           *)
(* MaxAttemptArg and all valid delays up to MaxDelayArg; the earlier       *)
(* attempts failed with 40001 and were waited for with the middle draw.    *)
(***************************************************************************)
SerializationError == ErrorData(ERRCODE_T_R_SERIALIZATION_FAILURE, "could not serialize access")

BackoffRequest(mt, base, maxd) ==
    [ sql_isnull |-> FALSE, sql |-> SingleUpdate,
      max_tries |-> [isnull |-> FALSE, value |-> mt],
      base_delay_ms |-> [isnull |-> FALSE, value |-> base],
      max_delay_ms |-> [isnull |-> FALSE, value |-> maxd],
      sqlstates_isnull |-> TRUE, retry_sqlstates |-> <<>> ]

BackoffInit ==
    /\ variant \in Variants
    /\ xact \in CallerStacks
    /\ entry_xact = xact
    /\ attempt \in 1..MaxAttemptArg
    /\ max_tries = attempt + 1
    /\ max_delay_ms \in 0..MaxDelayArg
    /\ base_delay_ms \in 0..max_delay_ms
    /\ fcinfo = BackoffRequest(max_tries, base_delay_ms, max_delay_ms)
    /\ retry_sqlstates = IF variant = "new"
                         THEN build_sqlstate_array(pg_retry_default_sqlstates_str)
                         ELSE text_to_array(pg_retry_default_sqlstates_str)
    /\ pc = "delay"
    /\ processed_rows = 0 /\ success = FALSE
    /\ last_error = NoError /\ errdata = NoError /\ should_retry = TRUE
    /\ retry_context = CallerContext /\ retry_owner = CallerOwner
    /\ CurrentMemoryContext = IF variant = "new" THEN retry_context
                              ELSE CurTransactionContext(Len(xact))
    /\ CurrentResourceOwner = IF variant = "new" THEN retry_owner
                              ELSE CurTransactionResourceOwner(Len(xact))
    /\ spi_connected = TRUE
    /\ InterruptPending = FALSE
    /\ outcomes = [i \in 1..attempt |-> Outcome("exec_error", 0, SerializationError)]
    /\ warnings = [i \in 1..attempt |->
                      Warning(i, max_tries, unpack_sql_state(SerializationError.sqlerrcode),
                              SerializationError.message)]
    /\ sleeps = [i \in 1..(attempt - 1) |->
                    [attempt |-> i,
                     delay_ms |-> calculate_delay(i, base_delay_ms, max_delay_ms, JitterDen \div 2),
                     cancelled |-> FALSE]]
    /\ parse_calls = 1
    /\ result = NoResult

BackoffNext == Delay

BackoffSpec == BackoffInit /\ [][BackoffNext]_vars

(***************************************************************************)
(* The classifier alone: pg_retry_retry has caught the error of attempt 1  *)
(* and rolled the subtransaction back; the error and the caller's          *)
(* retry_sqlstates array range over codes and entries that differ in case, *)
(* in length, by a leading blank, or that are NULL.                        *)
(***************************************************************************)
ClassifyErrors ==
    ExecErrors \cup { ErrorData(MAKE_SQLSTATE(<<"4","0","P","0","1">>), "deadlock detected") }

ClassifyElems ==
    { NullElem,
      TextElem(<<"0","0","0","0","0">>), TextElem(<<"4","0","0","0","1">>),
      TextElem(<<"4","0","P","0","1">>), TextElem(<<"4","0","p","0","1">>),
      TextElem(<<" ","4","0","0","0","1">>), TextElem(<<"4","0","0","0">>) }

ClassifyArrays == SeqsUpTo(ClassifyElems, MaxCodes)

ClassifyRequest(mt, sqlstates) ==
    [ sql_isnull |-> FALSE, sql |-> SingleUpdate,
      max_tries |-> [isnull |-> FALSE, value |-> mt],
      base_delay_ms |-> [isnull |-> TRUE, value |-> 0],
      max_delay_ms |-> [isnull |-> TRUE, value |-> 0],
      sqlstates_isnull |-> FALSE, retry_sqlstates |-> sqlstates ]

ClassifyInit ==
    /\ variant \in Variants
    /\ xact \in CallerStacks
    /\ entry_xact = xact
    /\ attempt = 1
    /\ max_tries \in 1..MaxTriesArg
    /\ base_delay_ms = pg_retry_default_base_delay_ms
    /\ max_delay_ms = pg_retry_default_max_delay_ms
    /\ retry_sqlstates \in ClassifyArrays
    /\ fcinfo = ClassifyRequest(max_tries, retry_sqlstates)
    /\ pc = "classify"
    /\ processed_rows = 0 /\ success = FALSE
    /\ last_error = NoError /\ errdata \in ClassifyErrors /\ should_retry = FALSE
    /\ retry_context = CallerContext /\ retry_owner = CallerOwner
    /\ CurrentMemoryContext = IF variant = "new" THEN retry_context
                              ELSE CurTransactionContext(Len(xact))
    /\ CurrentResourceOwner = IF variant = "new" THEN retry_owner
                              ELSE CurTransactionResourceOwner(Len(xact))
    /\ spi_connected = TRUE
    /\ InterruptPending = FALSE
    /\ outcomes = <<Outcome("exec_error", 0, errdata)>>
    /\ warnings = <<>> /\ sleeps = <<>>
    /\ parse_calls = 1
    /\ result = NoResult

ClassifyNext == Classify

ClassifySpec == ClassifyInit /\ [][ClassifyNext]_vars

(***************************************************************************)
(* Vocabulary of the claims, read off the request and the histories.       *)
(***************************************************************************)
Done == pc = "done"
Last(q) == q[Len(q)]

MaxTries == IF fcinfo.max_tries.isnull THEN pg_retry_default_max_tries ELSE fcinfo.max_tries.value
BaseDelayMs ==
    IF fcinfo.base_delay_ms.isnull THEN pg_retry_default_base_delay_ms
    ELSE fcinfo.base_delay_ms.value
MaxDelayMs ==
    IF fcinfo.max_delay_ms.isnull THEN pg_retry_default_max_delay_ms
    ELSE fcinfo.max_delay_ms.value

DefaultRetryableCodes ==
    { <<"4","0","0","0","1">>, <<"4","0","P","0","1">>,
      <<"5","5","P","0","3">>, <<"5","7","0","1","4">> }

RetryableCodes ==
    IF fcinfo.sqlstates_isnull THEN DefaultRetryableCodes
    ELSE { fcinfo.retry_sqlstates[i].str :
              i \in {j \in 1..Len(fcinfo.retry_sqlstates) : ~fcinfo.retry_sqlstates[j].isnull} }

Failed(o) == o.kind # "ok"
RetryableError(err) == err.sqlerrcode # 0 /\ unpack_sql_state(err.sqlerrcode) \in RetryableCodes
RetryableFailure(o) == Failed(o) /\ RetryableError(o.err)

ParametersInvalid ==
    MaxTries < 1 \/ BaseDelayMs < 0 \/ MaxDelayMs < 0 \/ BaseDelayMs > MaxDelayMs

StatementInvalid ==
    \/ fcinfo.sql.parse_error
    \/ Len(fcinfo.sql.stmts) # 1
    \/ fcinfo.sql.stmts[1] = "TransactionStmt"

ValidRequest == ~fcinfo.sql_isnull /\ ~ParametersInvalid /\ ~StatementInvalid

\* the invocation ended in the interrupt check that follows a backoff wait
CancelledAtWait ==
    /\ Done /\ result.kind = "error"
    /\ sleeps # <<>> /\ Last(sleeps).attempt = Len(outcomes)

RejectedWith(code) ==
    Done /\ outcomes = <<>> /\ result.kind = "error" /\ result.err.sqlerrcode = code

(***************************************************************************)
(* C1: in each variant, when the statement of attempt n fails with a code  *)
(* that is not retryable, that failure is the invocation's error at once:  *)
(* no attempt n+1 starts, no wait follows, exactly n attempts run.         *)
(* Violated by src/pg_retry.c, which stores the error and goes on looping. *)
(***************************************************************************)
C1_NonRetryablePropagatesAtOnce ==
    \A n \in 1..Len(outcomes) :
        (outcomes[n].kind = "exec_error" /\ ~RetryableError(outcomes[n].err)) =>
            /\ Len(outcomes) = n
            /\ pc \notin {"SPI_execute", "release"}
            /\ \A i \in 1..Len(sleeps) : sleeps[i].attempt < n
            /\ Done => result = Raised(outcomes[n].err)

C3_SucceedsOrExhausts ==
    ( /\ Done /\ ValidRequest /\ ~CancelledAtWait
      /\ \A i \in 1..Len(outcomes) : Failed(outcomes[i]) => RetryableFailure(outcomes[i]) ) =>
        /\ Len(outcomes) <= MaxTries
        /\ \/ /\ result.kind = "return"
              /\ Last(outcomes).kind = "ok"
              /\ result.rows = Last(outcomes).rows
              /\ \A i \in 1..(Len(outcomes) - 1) : Failed(outcomes[i])
           \/ /\ result.kind = "error"
              /\ Len(outcomes) = MaxTries

(***************************************************************************)
(* C4: when attempts 1..k fail with retryable codes and attempt k+1 runs   *)
(* without error, nothing runs after it (no attempt, no wait), exactly k   *)
(* warnings and k waits happened, and the rows of attempt k+1 are returned.*)
(***************************************************************************)
C4_SuccessAfterRetries ==
    ( /\ outcomes # <<>> /\ Last(outcomes).kind = "ok"
      /\ \A i \in 1..(Len(outcomes) - 1) : RetryableFailure(outcomes[i]) ) =>
        /\ pc \in {"end_try", "SPI_finish", "done"}
        /\ Len(warnings) = Len(outcomes) - 1
        /\ Len(sleeps) = Len(outcomes) - 1
        /\ \A i \in 1..Len(sleeps) : sleeps[i].attempt = i /\ warnings[i].attempt = i
        /\ Done => result = Returned(Last(outcomes).rows)

C4_Witness ==
    /\ Done /\ MaxTries = 3 /\ Len(outcomes) = 3
    /\ outcomes[1].err.sqlerrcode = ERRCODE_T_R_SERIALIZATION_FAILURE
    /\ outcomes[2].err.sqlerrcode = ERRCODE_T_R_SERIALIZATION_FAILURE
    /\ outcomes[3] = Outcome("ok", 7, NoError)
    /\ result = Returned(7) /\ Len(warnings) = 2 /\ Len(sleeps) = 2

(***************************************************************************)
(* C5 as claimed: when all maxTries attempts fail with retryable codes,    *)
(* exactly maxTries-1 warnings are emitted (none for attempt maxTries).    *)
(***************************************************************************)
AllAttemptsFailedRetryable ==
    /\ Done /\ MaxTries >= 1 /\ Len(outcomes) = MaxTries
    /\ \A i \in 1..Len(outcomes) : RetryableFailure(outcomes[i])

C5_NoWarningForExhaustingFailure ==
    AllAttemptsFailedRetryable => Len(warnings) = MaxTries - 1

(***************************************************************************)
(* C5 amended: when all maxTries attempts fail with retryable codes,       *)
(* exactly maxTries warnings are emitted, the n-th for attempt n; the      *)
(* failure of attempt maxTries is warned about and then rethrown.          *)
(***************************************************************************)
C5_WarningForEveryRetryableFailure ==
    AllAttemptsFailedRetryable =>
        /\ Len(warnings) = MaxTries
        /\ \A n \in 1..MaxTries :
              /\ warnings[n].attempt = n
              /\ warnings[n].sqlstate = unpack_sql_state(outcomes[n].err.sqlerrcode)

C5_Witness ==
    /\ AllAttemptsFailedRetryable /\ MaxTries = 2
    /\ \A i \in 1..2 : outcomes[i].kind = "exec_error"
    /\ Len(warnings) = 2 /\ warnings[2].attempt = 2
    /\ result = Raised(outcomes[2].err)

(***************************************************************************)
(* C6: an invocation rejected up front (null statement, not exactly one    *)
(* statement, transaction-control statement, invalid max_tries or delays)  *)
(* raises its error with no attempt, no subtransaction opened, no warning, *)
(* no wait and no change of the data; for every max_tries.                 *)
(***************************************************************************)
C6_RejectedUpFrontDoesNothing ==
    ~ValidRequest =>
        /\ pc \in {"entry", "validate_inputs", "validate_sql", "done"}
        /\ outcomes = <<>> /\ warnings = <<>> /\ sleeps = <<>>
        /\ xact = entry_xact
        /\ ~spi_connected
        /\ Done => /\ result.kind = "error"
                   /\ result.err.sqlerrcode \in
                         { ERRCODE_NULL_VALUE_NOT_ALLOWED, ERRCODE_INVALID_PARAMETER_VALUE,
                           ERRCODE_SYNTAX_ERROR, ERRCODE_FEATURE_NOT_SUPPORTED }

C6_Witness ==
    /\ Done /\ ~fcinfo.sql_isnull /\ ~ParametersInvalid
    /\ ~fcinfo.sql.parse_error /\ fcinfo.sql.stmts = <<"TransactionStmt">>
    /\ ~fcinfo.max_tries.isnull /\ fcinfo.max_tries.value = MaxTriesArg
    /\ RejectedWith(ERRCODE_FEATURE_NOT_SUPPORTED)

(***************************************************************************)
(* C7: once the parser has yielded a statement list, the validator's       *)
(* decision depends on that list alone: SyntaxError for zero or several    *)
(* statements, UnsupportedStatement for one transaction-control statement, *)
(* acceptance for one statement of any other kind.                         *)
(***************************************************************************)
C7_ValidatorDecision ==
    (parse_calls = 1 /\ ~fcinfo.sql.parse_error) =>
        IF Len(fcinfo.sql.stmts) # 1
        THEN RejectedWith(ERRCODE_SYNTAX_ERROR)
        ELSE IF fcinfo.sql.stmts[1] = "TransactionStmt"
        THEN RejectedWith(ERRCODE_FEATURE_NOT_SUPPORTED)
        ELSE /\ pc = "SPI_connect" \/ attempt >= 1
             /\ ~RejectedWith(ERRCODE_SYNTAX_ERROR)
             /\ ~RejectedWith(ERRCODE_FEATURE_NOT_SUPPORTED)

C7_Witness ==
    /\ parse_calls = 1 /\ ~fcinfo.sql.parse_error
    /\ Len(fcinfo.sql.stmts) = 2 /\ fcinfo.sql.stmts[1] = "TransactionStmt"
    /\ RejectedWith(ERRCODE_SYNTAX_ERROR)

(***************************************************************************)
(* C8 as claimed: an invocation is rejected with InvalidParameter exactly  *)
(* when the merged parameters have max_tries < 1, a negative delay, or     *)
(* base_delay_ms > max_delay_ms.                                           *)
(***************************************************************************)
C8_InvalidParameterExactly ==
    Done => (RejectedWith(ERRCODE_INVALID_PARAMETER_VALUE) <=> ParametersInvalid)

(***************************************************************************)
(* C8 amended: an invocation whose statement is not null is rejected with  *)
(* InvalidParameter exactly when the merged parameters are invalid; a null *)
(* statement is rejected with InvalidInput whatever the parameters are.    *)
(***************************************************************************)
C8_InvalidParameterExactlyForNonNullStatement ==
    Done =>
        /\ RejectedWith(ERRCODE_INVALID_PARAMETER_VALUE)
              <=> (~fcinfo.sql_isnull /\ ParametersInvalid)
        /\ fcinfo.sql_isnull => RejectedWith(ERRCODE_NULL_VALUE_NOT_ALLOWED)

C8_Witness ==
    /\ Done /\ ~fcinfo.sql_isnull
    /\ ~fcinfo.base_delay_ms.isnull /\ ~fcinfo.max_delay_ms.isnull
    /\ fcinfo.base_delay_ms.value = 1 /\ fcinfo.max_delay_ms.value = 1
    /\ MaxTries = 1
    /\ ~RejectedWith(ERRCODE_INVALID_PARAMETER_VALUE)
    /\ Len(outcomes) = 1

(***************************************************************************)
(* C9: a valid request with max_tries = 1 runs exactly one attempt and     *)
(* never waits, whatever the attempt's outcome.                            *)
(***************************************************************************)
C9_SingleTryNeverWaits ==
    (ValidRequest /\ MaxTries = 1) =>
        /\ Len(outcomes) <= 1
        /\ sleeps = <<>>
        /\ pc \in {"SPI_execute", "release"} => outcomes = <<>>
        /\ Done => Len(outcomes) = 1

C9_Witness ==
    /\ Done /\ ValidRequest /\ MaxTries = 1
    /\ Len(outcomes) = 1 /\ outcomes[1].kind = "exec_error" /\ RetryableFailure(outcomes[1])
    /\ sleeps = <<>>

(***************************************************************************)
(* C10: an attempt never sees the writes of an earlier, failed attempt;    *)
(* on success the data is the caller's plus the writes of exactly the      *)
(* successful attempt; on failure the data and the caller's transaction    *)
(* stack are what they were at entry and the session is still usable.      *)
(* Violated: see C21 (success returned for a rolled-back attempt) and C23  *)
(* (rollback applied when no subtransaction was opened).                   *)
(***************************************************************************)
C10_EffectsConfinedToOneAttempt ==
    /\ pc = "SPI_execute" => Top(xact) = Top(entry_xact)
    /\ (Done /\ result.kind = "return") =>
            xact = Execute(entry_xact, Len(outcomes))
    /\ (Done /\ result.kind # "return") =>
            xact = entry_xact /\ result.kind # "fatal"

(***************************************************************************)
(* C11: a cancel request that arrives during the backoff wait after the    *)
(* retryable failure of attempt n ends the invocation with the cancel      *)
(* error (57014) and attempt n+1 never begins; the interrupt check comes   *)
(* right after each wait, so no request that arrived during a wait is      *)
(* still pending when an attempt opens its subtransaction.                 *)
(***************************************************************************)
CancelError == ErrorData(ERRCODE_QUERY_CANCELED, "canceling statement due to user request")

C11_CancelDuringWaitAborts ==
    /\ \A i \in 1..Len(sleeps) :
          sleeps[i].cancelled =>
              /\ i = Len(sleeps)
              /\ Len(outcomes) = sleeps[i].attempt
              /\ RetryableFailure(outcomes[sleeps[i].attempt])
              /\ pc \in {"CHECK_FOR_INTERRUPTS", "done"}
              /\ Done => result = Raised(CancelError)
    /\ InterruptPending => pc = "CHECK_FOR_INTERRUPTS"
    /\ pc = "CHECK_FOR_INTERRUPTS" =>
          /\ sleeps # <<>> /\ Last(sleeps).attempt = attempt
          /\ Len(outcomes) = attempt
    /\ pc \in {"begin", "SPI_execute", "release"} =>
          /\ ~InterruptPending
          /\ Len(outcomes) = attempt - 1

C11_Witness ==
    /\ Done /\ MaxTries = 3 /\ Len(outcomes) = 2 /\ Len(sleeps) = 2
    /\ ~sleeps[1].cancelled /\ sleeps[2].cancelled
    /\ result = Raised(CancelError)

(***************************************************************************)
(* C12 as claimed: whenever base*2^(n-1) < max_delay_ms, the delay d of    *)
(* the wait after attempt n satisfies 0.8*base*2^(n-1) <= d <=             *)
(* 1.2*base*2^(n-1), each bound raised to 1 when it is below 1.            *)
(***************************************************************************)
Uncapped(sl) == base_delay_ms * (2 ^ (sl.attempt - 1))

C12_DelayWithinTwentyPercent ==
    \A i \in 1..Len(sleeps) :
        LET b == Uncapped(sleeps[i])
            d == sleeps[i].delay_ms
        IN  b < max_delay_ms =>
              /\ IF 8 * b < 10 THEN d >= 1 ELSE 10 * d >= 8 * b
              /\ IF 12 * b < 10 THEN d <= 1 ELSE 10 * d <= 12 * b

(***************************************************************************)
(* C12 amended: whenever base*2^(n-1) < max_delay_ms, the delay d of the   *)
(* wait after attempt n satisfies floor(0.8*base*2^(n-1)) <= d <=          *)
(* 1.2*base*2^(n-1), each bound raised to 1 when it is below 1: the        *)
(* truncation to whole milliseconds may take d below 0.8*base*2^(n-1), by  *)
(* less than 1 ms.                                                         *)
(***************************************************************************)
C12_DelayWithinTwentyPercentTruncated ==
    \A i \in 1..Len(sleeps) :
        LET b == Uncapped(sleeps[i])
            d == sleeps[i].delay_ms
        IN  b < max_delay_ms =>
              /\ d >= Max(1, (8 * b) \div 10)
              /\ 10 * (d + 1) > 8 * b
              /\ IF 12 * b < 10 THEN d <= 1 ELSE 10 * d <= 12 * b

C12_Witness ==
    /\ pc = "CHECK_FOR_INTERRUPTS" /\ attempt = 2
    /\ Uncapped(Last(sleeps)) = 4 /\ max_delay_ms > 4
    /\ Last(sleeps).attempt = 2 /\ Last(sleeps).delay_ms = 3

(***************************************************************************)
(* C13: for valid delays 0 <= base_delay_ms <= max_delay_ms, every wait is *)
(* at least 1 ms and at most max(1, 1.2*max_delay_ms); with both delays 0  *)
(* it is exactly 1 ms, for every attempt and every draw.                   *)
(***************************************************************************)
C13_DelayBetweenOneAndCap ==
    \A i \in 1..Len(sleeps) :
        LET d == sleeps[i].delay_ms
        IN  /\ d >= 1
            /\ IF 12 * max_delay_ms < 10 THEN d <= 1 ELSE 10 * d <= 12 * max_delay_ms
            /\ (base_delay_ms = 0 /\ max_delay_ms = 0) => d = 1

C13_Witness ==
    /\ pc = "CHECK_FOR_INTERRUPTS" /\ attempt = MaxAttemptArg
    /\ Uncapped(Last(sleeps)) > max_delay_ms
    /\ Last(sleeps).delay_ms > max_delay_ms
    /\ 10 * Last(sleeps).delay_ms = 12 * max_delay_ms

(***************************************************************************)
(* C14: a failed attempt is classified retryable exactly when its error    *)
(* has a non-zero code whose five-character text equals, character for     *)
(* character, a non-null entry of retry_sqlstates; an error without a code *)
(* is not retryable even if "00000" is listed, and NULL entries, entries   *)
(* in another case, with blanks or of another length never match.          *)
(***************************************************************************)
SqlstateTexts ==
    { <<"0","0","0","0","0">>, <<"2","2","0","1","2">>, <<"4","0","0","0","1">>,
      <<"4","0","P","0","1">>, <<"5","7","0","1","4">>, <<"X","X","0","0","0">>,
      <<"5","3","2","0","0">> }

\* the text of a code, found by packing the candidate texts
SqlstateText(code) == CHOOSE t \in SqlstateTexts : MAKE_SQLSTATE(t) = code

Listed(text, sqlstates) ==
    \E i \in 1..Len(sqlstates) : ~sqlstates[i].isnull /\ sqlstates[i].str = text

C14_RetryableIffCodeListed ==
    pc = "decide" =>
        /\ should_retry <=> ( /\ errdata.sqlerrcode # 0
                              /\ Listed(SqlstateText(errdata.sqlerrcode), retry_sqlstates) )
        /\ should_retry <=> (warnings # <<>> /\ Last(warnings).attempt = attempt)

C14_Witness ==
    /\ pc = "decide" /\ errdata.sqlerrcode = 0
    /\ Listed(<<"0","0","0","0","0">>, retry_sqlstates)
    /\ \E i \in 1..Len(retry_sqlstates) : retry_sqlstates[i].isnull
    /\ ~should_retry /\ warnings = <<>>

(***************************************************************************)
(* C15: once the failure of attempt n is classified, there is exactly one  *)
(* warning for it if its code is retryable, carrying n, max_tries, the     *)
(* SQLSTATE text and the message of that failure, and none otherwise;      *)
(* every wait has the warning of its attempt emitted before it; no warning *)
(* belongs to an attempt that succeeded or failed non-retryably.           *)
(***************************************************************************)
WarningsOf(n) == {j \in 1..Len(warnings) : warnings[j].attempt = n}

FailureClassified(n) ==
    /\ n \in 1..Len(outcomes) /\ Failed(outcomes[n])
    /\ n = Len(outcomes) => pc \notin {"catch", "classify"}

C15_OneWarningPerRetryableFailure ==
    /\ \A n \in 1..Len(outcomes) :
          IF FailureClassified(n) /\ RetryableFailure(outcomes[n])
          THEN /\ Cardinality(WarningsOf(n)) = 1
               /\ \A j \in WarningsOf(n) :
                     warnings[j] = Warning(n, MaxTries,
                                           SqlstateText(outcomes[n].err.sqlerrcode),
                                           outcomes[n].err.message)
          ELSE WarningsOf(n) = {}
    /\ \A j \in 1..Len(warnings) : warnings[j].attempt \in 1..Len(outcomes)
    /\ \A i \in 1..Len(sleeps) :
          /\ WarningsOf(sleeps[i].attempt) # {}
          /\ Len(warnings) >= i

C15_Witness ==
    /\ Done /\ variant = "new" /\ MaxTries = 3 /\ Len(outcomes) = 3
    /\ RetryableFailure(outcomes[1])
    /\ outcomes[2].kind = "exec_error" /\ outcomes[2].err.sqlerrcode = ERRCODE_QUERY_CANCELED
    /\ outcomes[3].kind = "exec_error" /\ ~RetryableError(outcomes[3].err)
    /\ Len(warnings) = 2 /\ Len(sleeps) = 2
    /\ warnings[2] = Warning(2, 3, <<"5","7","0","1","4">>, outcomes[2].err.message)

(***************************************************************************)
(* C16: the invocation never has more than one subtransaction of its own   *)
(* open; between attempts (from the classification of a failure up to the  *)
(* next BeginInternalSubTransaction) it has none; attempt n+1 is opened    *)
(* only when attempts 1..n all have their outcome, and when attempt n was  *)
(* a retryable failure, only after its wait and its interrupt check.       *)
(***************************************************************************)
C16_AttemptsAreSequential ==
    /\ Len(xact) <= Len(entry_xact) + 1
    /\ pc \in {"classify", "decide", "delay", "CHECK_FOR_INTERRUPTS", "end_try", "for",
                "begin", "SPI_finish"} => Len(xact) <= Len(entry_xact)
    /\ pc \in {"begin", "SPI_execute", "release"} =>
          /\ Len(outcomes) = attempt - 1
          /\ ~InterruptPending
          /\ \A n \in 1..Len(outcomes) :
                RetryableFailure(outcomes[n]) =>
                    \E i \in 1..Len(sleeps) : sleeps[i].attempt = n /\ ~sleeps[i].cancelled

C16_Witness ==
    /\ pc = "SPI_execute" /\ attempt = 2
    /\ Len(xact) = Len(entry_xact) + 1
    /\ Len(outcomes) = 1 /\ RetryableFailure(outcomes[1])
    /\ Len(sleeps) = 1

(***************************************************************************)
(* C17: after every attempt the current memory context and resource owner  *)
(* are the ones captured at entry: after a failed attempt from the         *)
(* classification on (warning, wait, rethrow), after a successful attempt  *)
(* from the commit on; so they are at the start of every later attempt and *)
(* at every exit.  (Attempt 1 starts in the SPI procedure context that     *)
(* SPI_connect switched to; that state is left out here.)                  *)
(* Violated by src/pg_retry.c, which never restores either of them.        *)
(***************************************************************************)
AmbientAsAtEntry ==
    /\ CurrentMemoryContext = CallerContext
    /\ CurrentResourceOwner = CallerOwner

C17_AmbientContextRestored ==
    /\ pc \in {"classify", "decide", "delay", "CHECK_FOR_INTERRUPTS", "end_try"}
          => AmbientAsAtEntry
    /\ (pc \in {"for", "begin"} /\ attempt >= 2) => AmbientAsAtEntry
    /\ (Done /\ result.kind # "fatal") => AmbientAsAtEntry

\* src/src/pg_retry.c alone does restore them
C17_HoldsInNewVariant == variant = "new" => C17_AmbientContextRestored

(***************************************************************************)
(* C18: every wait follows the retryable failure of an attempt n that has  *)
(* run, with 1 <= n < max_tries: none before attempt 1, none after an      *)
(* attempt that succeeded, none after attempt max_tries; there is at most  *)
(* one wait per attempt, and its length is the backoff of index n (the     *)
(* attempt that just failed): within 20% of min(base*2^(n-1), max), in     *)
(* whole milliseconds, at least 1.                                         *)
(***************************************************************************)
C18_WaitsOnlyBetweenAttempts ==
    /\ \A i \in 1..Len(sleeps) :
          LET n == sleeps[i].attempt
              b == Min(BaseDelayMs * (2 ^ (n - 1)), MaxDelayMs)
          IN  /\ n \in 1..Len(outcomes)
              /\ n < MaxTries
              /\ RetryableFailure(outcomes[n])
              /\ sleeps[i].delay_ms >= Max(1, (8 * b) \div 10)
              /\ sleeps[i].delay_ms <= Max(1, (12 * b) \div 10)
              /\ \A j \in 1..(i - 1) : sleeps[j].attempt < n
    /\ pc \in {"delay", "CHECK_FOR_INTERRUPTS"} => Failed(Last(outcomes))

C18_Witness ==
    /\ pc = "CHECK_FOR_INTERRUPTS" /\ MaxTries = 3 /\ BaseDelayMs = 50 /\ MaxDelayMs = 1000
    /\ Len(sleeps) = 2 /\ sleeps[2].attempt = 2
    /\ sleeps[1].delay_ms \in 40..60 /\ sleeps[2].delay_ms \in 80..120

(***************************************************************************)
(* C19: an invocation that passed validation ends either returning the row *)
(* count of its one successful (committed) attempt, or raising the error   *)
(* of one of its attempts, or raising the cancel error after a wait; it    *)
(* never ends with the defensive internal error raised after the loop.     *)
(* Violated: success is returned for an attempt whose release failed and   *)
(* which was rolled back (C21), and the session ends with FATAL when the   *)
(* rollback finds no subtransaction (C23).                                 *)
(***************************************************************************)
DefensiveErrors ==
    { ErrorData(ERRCODE_INTERNAL_ERROR, "pg_retry: unexpected error state"),
      ErrorData(ERRCODE_INTERNAL_ERROR, "pg_retry: all retry attempts failed") }

C19_OneSuccessOrPropagatedFailure ==
    (Done /\ ValidRequest) =>
        /\ \/ /\ result.kind = "return"
              /\ Last(outcomes).kind = "ok"
              /\ result.rows = Last(outcomes).rows
              /\ Cardinality({i \in 1..Len(outcomes) : outcomes[i].kind = "ok"}) = 1
           \/ /\ result.kind = "error"
              /\ \E n \in 1..Len(outcomes) : Failed(outcomes[n]) /\ result.err = outcomes[n].err
           \/ /\ CancelledAtWait
              /\ result = Raised(CancelError)
        /\ result.err \notin DefensiveErrors

\* the part of C19 that holds in both variants: the error raised after the
\* loop "should not reach here", and the loop never ends without an outcome
C19_DefensiveErrorUnreachable ==
    /\ Done => result.err \notin DefensiveErrors
    /\ (pc = "SPI_finish" /\ ~success) => (variant = "old" /\ last_error # NoError)
    /\ (Done /\ ValidRequest) => outcomes # <<>>

C21_SuccessOnlyForCommittedAttempt ==
    /\ (Done /\ result.kind = "return") =>
          /\ Last(outcomes).kind = "ok"
          /\ result.rows = Last(outcomes).rows
          /\ xact = Execute(entry_xact, Len(outcomes))
    /\ (Done /\ outcomes # <<>> /\ Last(outcomes).kind = "release_error") =>
          result.kind = "error"

(***************************************************************************)
(* C22: the up-front checks run in a fixed order and the first one that    *)
(* fails gives the error: null statement, max_tries < 1, a negative delay, *)
(* base_delay_ms > max_delay_ms, then the statement (parse, count,         *)
(* transaction control).  With a null statement or an invalid parameter    *)
(* the parser is never called; the validator runs at most once, however    *)
(* many attempts follow.                                                   *)
(***************************************************************************)
FirstFailingCheck ==
    IF fcinfo.sql_isnull THEN "null statement"
    ELSE IF MaxTries < 1 THEN "max_tries"
    ELSE IF BaseDelayMs < 0 \/ MaxDelayMs < 0 THEN "negative delay"
    ELSE IF BaseDelayMs > MaxDelayMs THEN "delay order"
    ELSE IF fcinfo.sql.parse_error THEN "parse"
    ELSE IF Len(fcinfo.sql.stmts) # 1 THEN "statement count"
    ELSE IF fcinfo.sql.stmts[1] = "TransactionStmt" THEN "transaction control"
    ELSE "none"

ErrorOfCheck ==
    [ c \in {"null statement", "max_tries", "negative delay", "delay order", "parse",
             "statement count", "transaction control"} |->
        CASE c = "null statement" ->
                ErrorData(ERRCODE_NULL_VALUE_NOT_ALLOWED, "pg_retry: sql parameter cannot be null")
          [] c = "max_tries" ->
                ErrorData(ERRCODE_INVALID_PARAMETER_VALUE, "pg_retry: max_tries must be >= 1")
          [] c = "negative delay" ->
                ErrorData(ERRCODE_INVALID_PARAMETER_VALUE, "pg_retry: delay parameters must be >= 0")
          [] c = "delay order" ->
                ErrorData(ERRCODE_INVALID_PARAMETER_VALUE,
                          "pg_retry: base_delay_ms cannot be greater than max_delay_ms")
          [] c = "parse" -> ErrorData(ERRCODE_SYNTAX_ERROR, "syntax error")
          [] c = "statement count" ->
                ErrorData(ERRCODE_SYNTAX_ERROR, "pg_retry: SQL must contain exactly one statement")
          [] c = "transaction control" ->
                ErrorData(ERRCODE_FEATURE_NOT_SUPPORTED,
                          "pg_retry: transaction control statements are not allowed") ]

C22_ChecksInFixedOrder ==
    /\ (Done /\ FirstFailingCheck # "none") =>
          /\ result = Raised(ErrorOfCheck[FirstFailingCheck])
          /\ outcomes = <<>>
    /\ (Done /\ FirstFailingCheck = "none") => outcomes # <<>>
    /\ parse_calls <= 1
    /\ FirstFailingCheck \in {"null statement", "max_tries", "negative delay", "delay order"}
          => parse_calls = 0
    /\ (Done /\ FirstFailingCheck \in {"parse", "statement count", "transaction control", "none"})
          => parse_calls = 1

C22_Witness ==
    /\ Done /\ ~fcinfo.sql_isnull
    /\ MaxTries < 1 /\ BaseDelayMs < 0 /\ StatementInvalid
    /\ result = Raised(ErrorOfCheck["max_tries"])
    /\ parse_calls = 0

(***************************************************************************)
(* C23: the invocation commits or rolls back only subtransactions it       *)
(* opened itself: the caller's transaction levels and what they hold are   *)
(* never touched, the nesting depth at every exit is the depth at entry,   *)
(* and the session survives; also when BeginInternalSubTransaction fails.  *)
(* Violated in both variants: PG_CATCH rolls back "the current             *)
(* subtransaction" whether or not the attempt opened one.                  *)
(***************************************************************************)
C23_ScopesBalanced ==
    /\ Len(xact) >= Len(entry_xact)
    /\ \A i \in 1..(Len(entry_xact) - 1) : xact[i] = entry_xact[i]
    /\ result.kind # "fatal"
    /\ Done => Len(xact) = Len(entry_xact)

(***************************************************************************)
(* C24: a cancel request that arrives while the statement runs is raised   *)
(* by the executor as error 57014 of the attempt; pg_retry_retry has no    *)
(* interrupt check of its own there.  With the default retry_sqlstates and *)
(* n < max_tries that failure is retried like any other: one warning, one  *)
(* wait, and, unless a further request arrives during that wait, the       *)
(* interrupt check after the wait finds nothing pending and attempt n+1    *)
(* starts; the invocation does not end on attempt n.                       *)
(***************************************************************************)
CancelledInExecutor(n) ==
    /\ n \in 1..Len(outcomes)
    /\ outcomes[n].kind = "exec_error"
    /\ outcomes[n].err.sqlerrcode = ERRCODE_QUERY_CANCELED

C24_CancelInExecutorIsRetried ==
    \A n \in 1..Len(outcomes) :
        ( /\ CancelledInExecutor(n) /\ FailureClassified(n)
          /\ fcinfo.sqlstates_isnull /\ n < MaxTries ) =>
            /\ Cardinality(WarningsOf(n)) = 1
            /\ (n < Len(outcomes) \/ pc \notin {"decide", "delay"}) =>
                  \E i \in 1..Len(sleeps) : sleeps[i].attempt = n
            /\ \A i \in 1..Len(sleeps) :
                  (sleeps[i].attempt = n /\ ~sleeps[i].cancelled) =>
                      /\ i = Len(sleeps) => ~InterruptPending
                      /\ ~(Done /\ Len(outcomes) = n)
            /\ (Done /\ Len(outcomes) = n) =>
                  /\ Last(sleeps).cancelled
                  /\ result = Raised(CancelError)

C24_Witness ==
    /\ pc = "SPI_execute" /\ attempt = 2 /\ MaxTries = 3
    /\ fcinfo.sqlstates_isnull
    /\ CancelledInExecutor(1)
    /\ Len(warnings) = 1 /\ warnings[1].sqlstate = <<"5","7","0","1","4">>
    /\ Len(sleeps) = 1 /\ ~sleeps[1].cancelled

====
